---- MODULE Spec2Model ----
(***************************************************************************)
(* The value-translation layer and the decode/encode service of the       *)
(* python-cbor2 test container (docker/containers/python-cbor2/server.py). *)
(*                                                                         *)
(* Python values are tagged records:                                       *)
(*   None       [k |-> "none"]                                             *)
(*   bool       [k |-> "bool",  b |-> BOOLEAN]                             *)
(*   int        [k |-> "int",   neg, hi, lo]   value = +-(hi * 10^8 + lo)  *)
(*   float      [k |-> "float", cls, halves]   finite value = halves / 2   *)
(*   str        [k |-> "str",   s |-> sequence of one-character strings]   *)
(*   bytes      [k |-> "bytes", bs |-> sequence of 0..255]                 *)
(*   list       [k |-> "list",  items |-> sequence of values]              *)
(*   tuple      [k |-> "tuple", items |-> sequence of values]              *)
(*   dict       [k |-> "dict",  pairs |-> sequence of <<key, value>>]      *)
(*   CBORTag    [k |-> "tag",   tag, value]                                *)
(*   undefined  [k |-> "undefined"]                                        *)
(* and a raised exception is [k |-> "raise", exc, msg].                    *)
(***************************************************************************)
EXTENDS Integers, Sequences, FiniteSets, TLC

VARIABLES
    tpc,        \* translator harness: "native", "json" or "done"
    tin,        \* the native value handed to to_json_safe (Unset when none)
    tmid,       \* the JSON-safe value: to_json_safe's result or a raw JSON input
    tout,       \* from_json_safe's result
    pc,         \* per caller: position inside decode_cbor / encode_cbor
    op,         \* per caller: "decode", "encode" or "none"
    arg,        \* per caller: the handler's argument
    loc,        \* per caller: the handler's local variables
    env         \* per caller: the returned envelope

vars == <<tpc, tin, tmid, tout, pc, op, arg, loc, env>>

tvars == <<tpc, tin, tmid, tout>>

svars == <<pc, op, arg, loc, env>>

-----------------------------------------------------------------------------
(* Python values *)

Unset == [k |-> "unset"]

PyNone == [k |-> "none"]

PyBool(b) == [k |-> "bool", b |-> b]

PyStr(s) == [k |-> "str", s |-> s]

PyBytes(bs) == [k |-> "bytes", bs |-> bs]

PyList(items) == [k |-> "list", items |-> items]

PyTuple(items) == [k |-> "tuple", items |-> items]

PyDict(pairs) == [k |-> "dict", pairs |-> pairs]

CBORTag(tag, value) == [k |-> "tag", tag |-> tag, value |-> value]

Undefined == [k |-> "undefined"]

Raise(exc, msg) == [k |-> "raise", exc |-> exc, msg |-> msg]

IsRaise(v) == v.k = "raise"

\* Integers are arbitrary precision in Python; two decimal limbs of eight
\* digits keep 2^53 within the checker's machine integers.
MkInt(neg, hi, lo) == [k |-> "int", neg |-> (neg /\ (hi > 0 \/ lo > 0)), hi |-> hi, lo |-> lo]

PyInt(n) == MkInt(n < 0, 0, IF n < 0 THEN -n ELSE n)

PyFloat(halves) == [k |-> "float", cls |-> "finite", halves |-> halves]

NaN == [k |-> "float", cls |-> "nan", halves |-> 0]

PosInf == [k |-> "float", cls |-> "inf", halves |-> 0]

NegInf == [k |-> "float", cls |-> "-inf", halves |-> 0]

\* a < b on model integers
IntLess(a, b) ==
    LET MagLess(x, y) == x.hi < y.hi \/ (x.hi = y.hi /\ x.lo < y.lo)
    IN  IF a.neg /\ ~b.neg THEN TRUE
        ELSE IF ~a.neg /\ b.neg THEN FALSE
        ELSE IF a.neg THEN MagLess(b, a)
        ELSE MagLess(a, b)

IntNegate(a) == MkInt(~a.neg, a.hi, a.lo)

\* bool is a subclass of int: True is 1, False is 0
AsInt(v) == IF v.k = "bool" THEN PyInt(IF v.b THEN 1 ELSE 0) ELSE v

IsInstanceInt(v) == v.k \in {"int", "bool"}

-----------------------------------------------------------------------------
(* Strings *)

DigitChars == <<"0", "1", "2", "3", "4", "5", "6", "7", "8", "9">>

HexChars == <<"0", "1", "2", "3", "4", "5", "6", "7", "8", "9", "a", "b", "c", "d", "e", "f">>

RECURSIVE NatDigits(_)
NatDigits(n) ==
    IF n < 10 THEN <<DigitChars[n + 1]>>
    ELSE NatDigits(n \div 10) \o <<DigitChars[(n % 10) + 1]>>

RECURSIVE ZeroPad(_, _)
ZeroPad(s, width) == IF Len(s) >= width THEN s ELSE ZeroPad(<<"0">> \o s, width)

\* str(v) of an int
IntStr(v) ==
    LET mag == IF v.hi > 0 THEN NatDigits(v.hi) \o ZeroPad(NatDigits(v.lo), 8)
               ELSE NatDigits(v.lo)
    IN  IF v.neg THEN <<"-">> \o mag ELSE mag

\* str(v) of a bool
BoolStr(v) == IF v.b THEN <<"T", "r", "u", "e">> ELSE <<"F", "a", "l", "s", "e">>

\* str(k) where isinstance(k, int)
StrOfInt(v) == IF v.k = "bool" THEN BoolStr(v) ELSE IntStr(v)

\* repr of a finite float
FloatRepr(v) ==
    LET a == IF v.halves < 0 THEN -v.halves ELSE v.halves
    IN  (IF v.halves < 0 THEN <<"-">> ELSE <<>>)
        \o NatDigits(a \div 2) \o <<".">> \o (IF a % 2 = 1 THEN <<"5">> ELSE <<"0">>)

RECURSIVE BytesHex(_)
BytesHex(bs) ==
    IF bs = <<>> THEN <<>>
    ELSE <<HexChars[(Head(bs) \div 16) + 1], HexChars[(Head(bs) % 16) + 1]>> \o BytesHex(Tail(bs))

WhitespaceChars == {" ", "\t", "\n", "\r"}

HexVal(c) ==
    CASE c = "0" -> 0 [] c = "1" -> 1 [] c = "2" -> 2 [] c = "3" -> 3
      [] c = "4" -> 4 [] c = "5" -> 5 [] c = "6" -> 6 [] c = "7" -> 7
      [] c = "8" -> 8 [] c = "9" -> 9
      [] c \in {"a", "A"} -> 10 [] c \in {"b", "B"} -> 11 [] c \in {"c", "C"} -> 12
      [] c \in {"d", "D"} -> 13 [] c \in {"e", "E"} -> 14 [] c \in {"f", "F"} -> 15
      [] OTHER -> -1

\* bytes.fromhex on the characters of a str: ASCII whitespace between byte
\* pairs is skipped, anything else that is not a pair of hex digits is a
\* ValueError.  Returns the bytes, or a raised exception.
RECURSIVE FromHexChars(_, _)
FromHexChars(s, acc) ==
    IF s = <<>> THEN PyBytes(acc)
    ELSE IF Head(s) \in WhitespaceChars THEN FromHexChars(Tail(s), acc)
    ELSE IF Len(s) < 2 \/ HexVal(s[1]) < 0 \/ HexVal(s[2]) < 0
         THEN Raise("ValueError", "non-hexadecimal number found in fromhex() arg")
    ELSE FromHexChars(Tail(Tail(s)), Append(acc, HexVal(s[1]) * 16 + HexVal(s[2])))

bytes_fromhex(v) ==
    IF v.k # "str" THEN Raise("TypeError", "fromhex() argument must be str")
    ELSE FromHexChars(v.s, <<>>)

-----------------------------------------------------------------------------
(* dict *)

DictHas(d, key) == \E i \in 1..Len(d.pairs) : d.pairs[i][1] = key

DictGet(d, key) == d.pairs[CHOOSE i \in 1..Len(d.pairs) : d.pairs[i][1] = key][2]

\* result[key] = val on the pairs of a dict: an existing key keeps its place
\* and takes the new value, a new key is appended.
DictSetItem(pairs, key, val) ==
    IF \E i \in 1..Len(pairs) : pairs[i][1] = key
    THEN [i \in 1..Len(pairs) |-> IF pairs[i][1] = key THEN <<key, val>> ELSE pairs[i]]
    ELSE Append(pairs, <<key, val>>)

\* The reserved marker keys
K_BYTES == PyStr(<<"_", "_", "c", "b", "o", "r", "_", "b", "y", "t", "e", "s", "_", "_">>)

K_FLOAT == PyStr(<<"_", "_", "c", "b", "o", "r", "_", "f", "l", "o", "a", "t", "_", "_">>)

K_TAG == PyStr(<<"_", "_", "c", "b", "o", "r", "_", "t", "a", "g", "_", "_">>)

K_VALUE == PyStr(<<"_", "_", "c", "b", "o", "r", "_", "v", "a", "l", "u", "e", "_", "_">>)

K_UNDEFINED == PyStr(<<"_", "_", "c", "b", "o", "r", "_", "u", "n", "d", "e", "f", "i", "n", "e", "d", "_", "_">>)

S_NaN == PyStr(<<"N", "a", "N">>)

S_Infinity == PyStr(<<"I", "n", "f", "i", "n", "i", "t", "y">>)

S_NegInfinity == PyStr(<<"-", "I", "n", "f", "i", "n", "i", "t", "y">>)

-----------------------------------------------------------------------------
(* json.dumps with its default separators *)

RECURSIVE JsonEscape(_)
JsonEscape(s) ==
    IF s = <<>> THEN <<>>
    ELSE (CASE Head(s) = "\"" -> <<"\\", "\"">>
            [] Head(s) = "\\" -> <<"\\", "\\">>
            [] Head(s) = "\n" -> <<"\\", "n">>
            [] Head(s) = "\r" -> <<"\\", "r">>
            [] Head(s) = "\t" -> <<"\\", "t">>
            [] OTHER -> <<Head(s)>>) \o JsonEscape(Tail(s))

JsonQuote(s) == <<"\"">> \o JsonEscape(s) \o <<"\"">>

JsonFloatText(v) ==
    CASE v.cls = "nan" -> S_NaN.s
      [] v.cls = "inf" -> S_Infinity.s
      [] v.cls = "-inf" -> S_NegInfinity.s
      [] OTHER -> FloatRepr(v)

JsonBoolText(v) == IF v.b THEN <<"t", "r", "u", "e">> ELSE <<"f", "a", "l", "s", "e">>

\* the text of a dict key: str, int, float, bool and None keys are accepted
JsonKeyText(key) ==
    CASE key.k = "str" -> PyStr(JsonQuote(key.s))
      [] key.k = "bool" -> PyStr(JsonQuote(JsonBoolText(key)))
      [] key.k = "int" -> PyStr(JsonQuote(IntStr(key)))
      [] key.k = "float" -> PyStr(JsonQuote(JsonFloatText(key)))
      [] key.k = "none" -> PyStr(JsonQuote(<<"n", "u", "l", "l">>))
      [] OTHER -> Raise("TypeError", "keys must be str, int, float, bool or None")

RECURSIVE json_dumps(_), JsonItems(_, _), JsonPairs(_, _)
json_dumps(v) ==
    CASE v.k = "none" -> PyStr(<<"n", "u", "l", "l">>)
      [] v.k = "bool" -> PyStr(JsonBoolText(v))
      [] v.k = "int" -> PyStr(IntStr(v))
      [] v.k = "float" -> PyStr(JsonFloatText(v))
      [] v.k = "str" -> PyStr(JsonQuote(v.s))
      [] v.k \in {"list", "tuple"} -> JsonItems(v.items, <<"[">>)
      [] v.k = "dict" -> JsonPairs(v.pairs, <<"{">>)
      [] OTHER -> Raise("TypeError", "Object is not JSON serializable")

JsonItems(items, acc) ==
    IF items = <<>> THEN PyStr(acc \o <<"]">>)
    ELSE LET r == json_dumps(Head(items))
             sep == IF Len(acc) > 1 THEN <<",", " ">> ELSE <<>>
         IN  IF IsRaise(r) THEN r ELSE JsonItems(Tail(items), acc \o sep \o r.s)

JsonPairs(pairs, acc) ==
    IF pairs = <<>> THEN PyStr(acc \o <<"}">>)
    ELSE LET kt == JsonKeyText(Head(pairs)[1])
             r == json_dumps(Head(pairs)[2])
             sep == IF Len(acc) > 1 THEN <<",", " ">> ELSE <<>>
         IN  IF IsRaise(kt) THEN kt
             ELSE IF IsRaise(r) THEN r
             ELSE JsonPairs(Tail(pairs), acc \o sep \o kt.s \o <<":", " ">> \o r.s)

-----------------------------------------------------------------------------
(* to_json_safe *)

MAX_SAFE_INTEGER == MkInt(FALSE, 90071992, 54740991)

\* the comparison with both ends taken as outside
IntOutsideSafeRangeInclusive(v) ==
    ~IntLess(AsInt(v), MAX_SAFE_INTEGER) \/ ~IntLess(IntNegate(MAX_SAFE_INTEGER), AsInt(v))

\* value > 9007199254740991 or value < -9007199254740991
IntOutsideSafeRange(v) ==
    IntLess(MAX_SAFE_INTEGER, AsInt(v)) \/ IntLess(AsInt(v), IntNegate(MAX_SAFE_INTEGER))

\* the float branch with the sign of the infinity dropped
FloatToJsonSafeUnsigned(v) ==
    IF v.cls = "nan" THEN PyDict(<< <<K_FLOAT, S_NaN>> >>)
    ELSE IF v.cls \in {"inf", "-inf"} THEN PyDict(<< <<K_FLOAT, S_Infinity>> >>)
    ELSE v

\* the isinstance(value, float) branch
FloatToJsonSafe(v) ==
    IF v.cls = "nan" THEN PyDict(<< <<K_FLOAT, S_NaN>> >>)
    ELSE IF v.cls \in {"inf", "-inf"}
         THEN PyDict(<< <<K_FLOAT, IF v.cls = "inf" THEN S_Infinity ELSE S_NegInfinity>> >>)
    ELSE v

\* the isinstance(value, int) branch
IntToJsonSafe(v) == IF IntOutsideSafeRange(v) THEN PyStr(StrOfInt(v)) ELSE v

RECURSIVE to_json_safe(_), ToJsonSafeItems(_, _), ToJsonSafeDict(_, _), MapKey(_)
to_json_safe(value) ==
    IF value.k = "none" THEN PyNone
    ELSE IF value.k = "bytes" THEN PyDict(<< <<K_BYTES, PyStr(BytesHex(value.bs))>> >>)
    ELSE IF value.k = "float" THEN FloatToJsonSafe(value)
    ELSE IF IsInstanceInt(value) THEN IntToJsonSafe(value)
    ELSE IF value.k = "tag" THEN
        LET inner == to_json_safe(value.value)
        IN  IF IsRaise(inner) THEN inner
            ELSE PyDict(<< <<K_TAG, value.tag>>, <<K_VALUE, inner>> >>)
    ELSE IF value.k = "dict" THEN ToJsonSafeDict(value.pairs, <<>>)
    ELSE IF value.k \in {"list", "tuple"} THEN ToJsonSafeItems(value.items, <<>>)
    ELSE value

ToJsonSafeItems(items, acc) ==
    IF items = <<>> THEN PyList(acc)
    ELSE LET r == to_json_safe(Head(items))
         IN  IF IsRaise(r) THEN r ELSE ToJsonSafeItems(Tail(items), Append(acc, r))

\* the key of one entry of the result dict
MapKey(k) ==
    IF k.k = "bytes" THEN PyStr(BytesHex(k.bs))
    ELSE IF IsInstanceInt(k) THEN PyStr(StrOfInt(k))
    ELSE IF k.k = "str" THEN k
    ELSE LET j == to_json_safe(k)
         IN  IF IsRaise(j) THEN j ELSE json_dumps(j)

\* the loop over value.items()
ToJsonSafeDict(pairs, result) ==
    IF pairs = <<>> THEN PyDict(result)
    ELSE LET key == MapKey(Head(pairs)[1])
             val == to_json_safe(Head(pairs)[2])
         IN  IF IsRaise(key) THEN key
             ELSE IF IsRaise(val) THEN val
             ELSE ToJsonSafeDict(Tail(pairs), DictSetItem(result, key, val))

-----------------------------------------------------------------------------
(* from_json_safe *)

\* cbor2.CBORTag(tag, value): the tag must be an int in range(2**64); every
\* non-negative model integer is below 2**64.
CBORTagNew(tag, value) ==
    IF IsInstanceInt(tag) /\ ~AsInt(tag).neg THEN CBORTag(tag, value)
    ELSE Raise("TypeError", "CBORTag tags must be positive integers less than 2**64")

\* the '__cbor_float__' branch; Unset when no return statement is reached
FloatFromMarker(float_val) ==
    IF float_val = S_NaN THEN NaN
    ELSE IF float_val = S_Infinity THEN PosInf
    ELSE IF float_val = S_NegInfinity THEN NegInf
    ELSE Unset

RECURSIVE from_json_safe(_), FromJsonSafeItems(_, _), FromJsonSafePairs(_, _)
from_json_safe(value) ==
    IF value.k = "none" THEN PyNone
    ELSE IF value.k = "dict" THEN
        IF DictHas(value, K_BYTES) THEN bytes_fromhex(DictGet(value, K_BYTES))
        ELSE IF DictHas(value, K_FLOAT) /\ FloatFromMarker(DictGet(value, K_FLOAT)) # Unset
             THEN FloatFromMarker(DictGet(value, K_FLOAT))
        ELSE IF DictHas(value, K_TAG) /\ DictHas(value, K_VALUE) THEN
            LET inner == from_json_safe(DictGet(value, K_VALUE))
            IN  IF IsRaise(inner) THEN inner ELSE CBORTagNew(DictGet(value, K_TAG), inner)
        ELSE IF DictHas(value, K_UNDEFINED) THEN Undefined
        ELSE FromJsonSafePairs(value.pairs, <<>>)
    ELSE IF value.k = "list" THEN FromJsonSafeItems(value.items, <<>>)
    ELSE value

FromJsonSafeItems(items, acc) ==
    IF items = <<>> THEN PyList(acc)
    ELSE LET r == from_json_safe(Head(items))
         IN  IF IsRaise(r) THEN r ELSE FromJsonSafeItems(Tail(items), Append(acc, r))

\* the dict comprehension {k: from_json_safe(v) for k, v in value.items()}
FromJsonSafePairs(pairs, result) ==
    IF pairs = <<>> THEN PyDict(result)
    ELSE LET r == from_json_safe(Head(pairs)[2])
         IN  IF IsRaise(r) THEN r
             ELSE FromJsonSafePairs(Tail(pairs), DictSetItem(result, Head(pairs)[1], r))

-----------------------------------------------------------------------------
(* decode_cbor / encode_cbor *)

NoLocals == [data |-> Unset, result |-> Unset, backend |-> Unset, loads_calls |-> 0, dumps_calls |-> 0]

SuccessDecode(json_result, duration_ms) ==
    [success |-> TRUE, result |-> json_result, duration_ms |-> duration_ms]

SuccessEncode(hex_string, duration_ms) ==
    [success |-> TRUE, hex |-> hex_string, duration_ms |-> duration_ms]

\* {'success': False, 'error': str(e)}
FailureEnvelope(e) == [success |-> FALSE, error |-> e.msg]

\* an except clause that names ValueError alone
CaughtValueErrorOnly(e) == IsRaise(e) /\ e.exc = "ValueError"

\* ValueError and TypeError, and the errors cbor2 raises, derive from Exception
ExceptionSubclasses == {"ValueError", "TypeError", "CBORDecodeEOF", "CBOREncodeTypeError"}

\* except Exception as e
Caught(e) == IsRaise(e) /\ e.exc \in ExceptionSubclasses

\* (time.perf_counter() - start_time) * 1000 for two readings of the
\* monotonic clock that are `elapsed` apart
DurationMs(elapsed) == elapsed * 1000

\* start_time = time.perf_counter(); the try block is entered
DecodeBegin(c, hex_string) ==
    /\ pc[c] = "idle"
    /\ pc' = [pc EXCEPT ![c] = "d_fromhex"]
    /\ op' = [op EXCEPT ![c] = "decode"]
    /\ arg' = [arg EXCEPT ![c] = hex_string]
    /\ loc' = [loc EXCEPT ![c] = NoLocals]
    /\ UNCHANGED <<env, tvars>>

\* leaving the handler: with the envelope, or with an exception no except
\* clause caught
Leave(c, e) ==
    IF Caught(e)
    THEN /\ pc' = [pc EXCEPT ![c] = "done"]
         /\ env' = [env EXCEPT ![c] = FailureEnvelope(e)]
    ELSE /\ pc' = [pc EXCEPT ![c] = "raised"]
         /\ env' = env

\* data = bytes.fromhex(hex_string)
DecodeFromHex(c) ==
    /\ pc[c] = "d_fromhex"
    /\ LET data == bytes_fromhex(arg[c])
       IN  IF IsRaise(data)
           THEN Leave(c, data) /\ loc' = loc
           ELSE /\ loc' = [loc EXCEPT ![c].data = data]
                /\ pc' = [pc EXCEPT ![c] = "d_loads"]
                /\ env' = env
    /\ UNCHANGED <<op, arg, tvars>>

\* the decoded value kept in a module-level variable that every call in
\* flight reads
DecodeLoadsShared(c, outcome) ==
    /\ pc[c] = "d_loads"
    /\ loc' = [d \in DOMAIN loc |->
                 IF d = c
                 THEN [loc[d] EXCEPT !.loads_calls = @ + 1, !.backend = outcome,
                                     !.result = IF IsRaise(outcome) THEN Unset ELSE outcome]
                 ELSE IF pc[d] = "d_to_json" /\ ~IsRaise(outcome)
                 THEN [loc[d] EXCEPT !.result = outcome]
                 ELSE loc[d]]
    /\ IF IsRaise(outcome)
       THEN Leave(c, outcome)
       ELSE pc' = [pc EXCEPT ![c] = "d_to_json"] /\ env' = env
    /\ UNCHANGED <<op, arg, tvars>>

\* result = cbor2.loads(data): the backend returns a value or raises
DecodeLoads(c, outcome) ==
    /\ pc[c] = "d_loads"
    /\ loc' = [loc EXCEPT ![c].loads_calls = @ + 1, ![c].backend = outcome,
                          ![c].result = IF IsRaise(outcome) THEN Unset ELSE outcome]
    /\ IF IsRaise(outcome)
       THEN Leave(c, outcome)
       ELSE pc' = [pc EXCEPT ![c] = "d_to_json"] /\ env' = env
    /\ UNCHANGED <<op, arg, tvars>>

\* json_result = to_json_safe(result); the duration; the success envelope
DecodeToJsonSafe(c, elapsed) ==
    /\ pc[c] = "d_to_json"
    /\ LET json_result == to_json_safe(loc[c].result)
       IN  IF IsRaise(json_result)
           THEN Leave(c, json_result)
           ELSE /\ pc' = [pc EXCEPT ![c] = "done"]
                /\ env' = [env EXCEPT ![c] = SuccessDecode(json_result, DurationMs(elapsed))]
    /\ UNCHANGED <<op, arg, loc, tvars>>

EncodeBegin(c, value) ==
    /\ pc[c] = "idle"
    /\ pc' = [pc EXCEPT ![c] = "e_from_json"]
    /\ op' = [op EXCEPT ![c] = "encode"]
    /\ arg' = [arg EXCEPT ![c] = value]
    /\ loc' = [loc EXCEPT ![c] = NoLocals]
    /\ UNCHANGED <<env, tvars>>

\* py_value = from_json_safe(value)
EncodeFromJsonSafe(c) ==
    /\ pc[c] = "e_from_json"
    /\ LET py_value == from_json_safe(arg[c])
       IN  /\ loc' = [loc EXCEPT ![c].data = py_value]
           /\ IF IsRaise(py_value)
              THEN Leave(c, py_value)
              ELSE pc' = [pc EXCEPT ![c] = "e_dumps"] /\ env' = env
    /\ UNCHANGED <<op, arg, tvars>>

\* encoded = cbor2.dumps(py_value): the backend returns bytes or raises;
\* hex_string = encoded.hex(); the duration; the success envelope
EncodeDumps(c, outcome, elapsed) ==
    /\ pc[c] = "e_dumps"
    /\ loc' = [loc EXCEPT ![c].dumps_calls = @ + 1, ![c].backend = outcome,
                          ![c].result = IF IsRaise(outcome) THEN Unset ELSE outcome]
    /\ IF IsRaise(outcome)
       THEN Leave(c, outcome)
       ELSE /\ pc' = [pc EXCEPT ![c] = "done"]
            /\ env' = [env EXCEPT ![c] = SuccessEncode(PyStr(BytesHex(outcome.bs)), DurationMs(elapsed))]
    /\ UNCHANGED <<op, arg, tvars>>

\* the envelope is handed to the transport; nothing of the call is kept
Return(c) ==
    /\ pc[c] = "done"
    /\ pc' = [pc EXCEPT ![c] = "idle"]
    /\ op' = [op EXCEPT ![c] = "none"]
    /\ arg' = [arg EXCEPT ![c] = Unset]
    /\ loc' = [loc EXCEPT ![c] = NoLocals]
    /\ env' = [env EXCEPT ![c] = Unset]
    /\ UNCHANGED tvars

-----------------------------------------------------------------------------
(* The translator applied to bounded inputs *)

MaxDepth == 2

MaxLen == 2

Int2p53 == MkInt(FALSE, 90071992, 54740992)

\* scalar native values
Atoms ==
    {PyNone, PyBool(TRUE), PyBool(FALSE), PyInt(7), Int2p53, PyFloat(3), NaN, PosInf, NegInf,
     PyBytes(<<222, 173>>), PyStr(<<"x">>), Undefined}

\* integers on both sides of +-(2^53 - 1)
IntInputs ==
    {MkInt(n, h, l) : n \in BOOLEAN, h \in {0, 90071991, 90071992, 90071993},
                      l \in {0, 1, 54740990, 54740991, 54740992, 99999999}}

\* keys and values of the maps with several entries
KeyAtoms ==
    {PyInt(7), PyStr(<<"7">>), PyBytes(<<222>>), PyBool(TRUE), PyStr(<<"a">>),
     K_BYTES, K_FLOAT, K_TAG, K_VALUE, K_UNDEFINED}

ValAtoms == {PyInt(2), S_NaN, PyStr(<<"d", "e">>)}

PairSeqs(Keys, Vals, n) ==
    {ps \in [1..n -> Keys \X Vals] : \A i, j \in 1..n : i # j => ps[i][1] # ps[j][1]}

Maps == UNION {{PyDict(ps) : ps \in PairSeqs(KeyAtoms, ValAtoms, n)} : n \in 0..MaxLen}

Arrays == UNION {{PyList(items) : items \in [1..n -> ValAtoms]} : n \in 0..MaxLen}

\* a value as cbor2 hands it out in key position: arrays are tuples
RECURSIVE Freeze(_)
Freeze(v) ==
    IF v.k = "list" THEN PyTuple([i \in 1..Len(v.items) |-> Freeze(v.items[i])])
    ELSE IF v.k = "tag" THEN CBORTag(v.tag, Freeze(v.value))
    ELSE v

RECURSIVE HasDict(_)
HasDict(v) ==
    \/ v.k = "dict"
    \/ v.k \in {"list", "tuple"} /\ \E i \in 1..Len(v.items) : HasDict(v.items[i])
    \/ v.k = "tag" /\ HasDict(v.value)

RECURSIVE Nest(_)
Nest(d) ==
    IF d = 0 THEN Atoms
    ELSE LET P == Nest(d - 1)
         IN  P \cup {CBORTag(PyInt(42), v) : v \in P}
               \cup {PyList(<<v>>) : v \in P}
               \cup {PyDict(<< <<PyStr(<<"a">>), v>> >>) : v \in P}
               \cup {PyDict(<< <<Freeze(v), PyInt(2)>> >>) : v \in {p \in P : ~HasDict(p)}}

NativeInputs == Nest(MaxDepth) \cup Maps \cup Arrays \cup IntInputs

\* JSON values handed to from_json_safe
JsonKeys == {K_BYTES, K_FLOAT, K_TAG, K_VALUE, K_UNDEFINED, PyStr(<<"a">>)}

JsonVals == {PyBool(TRUE), PyBool(FALSE), PyInt(1), S_NaN, PyStr(<<"d", "e">>)}

JsonObjects == UNION {{PyDict(ps) : ps \in PairSeqs(JsonKeys, JsonVals, n)} : n \in 0..MaxLen}

RECURSIVE JsonNest(_)
JsonNest(d) ==
    IF d = 0 THEN JsonVals \cup {PyNone, PyFloat(3), S_NegInfinity}
                  \cup {PyDict(ps) : ps \in PairSeqs(JsonKeys, JsonVals \cup {S_Infinity}, 1)}
    ELSE LET P == JsonNest(d - 1)
         IN  P \cup {PyList(<<v>>) : v \in P}
               \cup {PyDict(<< <<PyStr(<<"a">>), v>> >>) : v \in P}
               \cup {PyDict(<< <<K_TAG, PyInt(42)>>, <<K_VALUE, v>> >>) : v \in P}

JsonInputs == JsonNest(MaxDepth) \cup JsonObjects

NumCallers == 2

Callers == 1..NumCallers

ServiceIdle ==
    /\ pc = [c \in Callers |-> "idle"]
    /\ op = [c \in Callers |-> "none"]
    /\ arg = [c \in Callers |-> Unset]
    /\ loc = [c \in Callers |-> NoLocals]
    /\ env = [c \in Callers |-> Unset]

InitTranslate ==
    /\ \/ tpc = "native" /\ tin \in NativeInputs /\ tmid = Unset
       \/ tpc = "json" /\ tin = Unset /\ tmid \in JsonInputs
    /\ tout = Unset
    /\ ServiceIdle

ToJsonSafe ==
    /\ tpc = "native"
    /\ tmid' = to_json_safe(tin)
    /\ tpc' = "json"
    /\ UNCHANGED <<tin, tout, svars>>

FromJsonSafe ==
    /\ tpc = "json"
    /\ ~IsRaise(tmid)
    /\ tout' = from_json_safe(tmid)
    /\ tpc' = "done"
    /\ UNCHANGED <<tin, tmid, svars>>

NextTranslate == ToJsonSafe \/ FromJsonSafe

SpecTranslate == InitTranslate /\ [][NextTranslate]_vars

-----------------------------------------------------------------------------
(* The service under concurrent callers *)

MaxElapsed == 1

\* the "hex" field of a decode request
HexInputs ==
    {PyStr(<<"0", "0">>), PyStr(<<"F", "7">>), PyStr(<<"0">>), PyStr(<<"0", "g">>),
     PyStr(<<"0", "0", " ">>), PyStr(<<>>), PyInt(5)}

\* the "value" field of an encode request
EncodeInputs ==
    {PyInt(1),
     PyDict(<< <<K_BYTES, PyStr(<<"0", "1", "0", "2">>)>> >>),
     PyDict(<< <<K_BYTES, PyStr(<<"z", "z">>)>> >>),
     PyDict(<< <<K_FLOAT, S_NaN>> >>),
     PyDict(<< <<K_FLOAT, PyStr(<<"d", "e">>)>> >>),
     PyList(<< PyDict(<< <<K_FLOAT, PyInt(1)>> >>) >>),
     PyDict(<< <<K_TAG, PyStr(<<"x">>)>>, <<K_VALUE, PyNone>> >>)}

\* what cbor2.loads may do with the bytes
LoadsOutcomes ==
    {Raise("CBORDecodeEOF", "premature end of stream"),
     PyInt(0),
     PyDict(<< <<PyInt(7), PyBytes(<<1>>)>> >>),
     PyDict(<< <<Undefined, PyInt(0)>> >>)}

\* what cbor2.dumps may do with the value
DumpsOutcomes ==
    {Raise("CBOREncodeTypeError", "cannot serialize type"),
     PyBytes(<<66, 1, 2>>)}

Init ==
    /\ tpc = "off"
    /\ tin = Unset
    /\ tmid = Unset
    /\ tout = Unset
    /\ ServiceIdle

Next ==
    \E c \in Callers :
        \/ \E hex_string \in HexInputs : DecodeBegin(c, hex_string)
        \/ DecodeFromHex(c)
        \/ \E outcome \in LoadsOutcomes : DecodeLoads(c, outcome)
        \/ \E elapsed \in 0..MaxElapsed : DecodeToJsonSafe(c, elapsed)
        \/ \E value \in EncodeInputs : EncodeBegin(c, value)
        \/ EncodeFromJsonSafe(c)
        \/ \E outcome \in DumpsOutcomes, elapsed \in 0..MaxElapsed : EncodeDumps(c, outcome, elapsed)
        \/ Return(c)

Spec == Init /\ [][Next]_vars

-----------------------------------------------------------------------------
(* Properties of the translator, under SpecTranslate *)

WithinSafeMagnitude(v) == v.hi < 90071992 \/ (v.hi = 90071992 /\ v.lo <= 54740991)

\* semantic equality of a native value and what came back for it: an
\* Integer beyond the safe range may come back as its decimal string, NaN
\* equals NaN, an Array is an Array whether list or tuple
RECURSIVE SemEq(_, _)
SemEq(v, w) ==
    IF v.k = "int" THEN w = v \/ (~WithinSafeMagnitude(v) /\ w = PyStr(IntStr(v)))
    ELSE IF v.k \in {"list", "tuple"} THEN
        /\ w.k \in {"list", "tuple"}
        /\ Len(w.items) = Len(v.items)
        /\ \A i \in 1..Len(v.items) : SemEq(v.items[i], w.items[i])
    ELSE IF v.k = "dict" THEN
        /\ w.k = "dict"
        /\ Len(w.pairs) = Len(v.pairs)
        /\ \A i \in 1..Len(v.pairs) :
              SemEq(v.pairs[i][1], w.pairs[i][1]) /\ SemEq(v.pairs[i][2], w.pairs[i][2])
    ELSE IF v.k = "tag" THEN w.k = "tag" /\ w.tag = v.tag /\ SemEq(v.value, w.value)
    ELSE w = v

\* a dict that from_json_safe reads as a marker
ReadAsMarker(d) ==
    \/ DictHas(d, K_BYTES)
    \/ DictHas(d, K_FLOAT) /\ DictGet(d, K_FLOAT) \in {S_NaN, S_Infinity, S_NegInfinity}
    \/ DictHas(d, K_TAG) /\ DictHas(d, K_VALUE)
    \/ DictHas(d, K_UNDEFINED)

\* every Map of the value, at any depth, has TextString keys only and is
\* not read as a marker
RECURSIVE TextKeyed(_)
TextKeyed(v) ==
    IF v.k = "dict" THEN
        /\ \A i \in 1..Len(v.pairs) : v.pairs[i][1].k = "str" /\ TextKeyed(v.pairs[i][2])
        /\ ~ReadAsMarker(v)
    ELSE IF v.k \in {"list", "tuple"} THEN \A i \in 1..Len(v.items) : TextKeyed(v.items[i])
    ELSE IF v.k = "tag" THEN TextKeyed(v.value)
    ELSE TRUE

\* C1 as claimed: for every native value, Maps with keys of any native type
\* included, from_json_safe(to_json_safe(v)) is semantically equal to v.
RoundTripAnyKeys == (tin # Unset /\ tpc = "done") => SemEq(tin, tout)

\* C1 amended: the round trip from_json_safe(to_json_safe(v)) is semantically
\* equal to v for every native value whose Maps, at any depth, have only
\* TextString keys and are not read as a marker by from_json_safe.
RoundTripTextKeys ==
    (tin # Unset /\ tpc # "native" /\ TextKeyed(tin)) =>
        /\ ~IsRaise(tmid)
        /\ tpc = "done" => SemEq(tin, tout)

RoundTripWitness ==
    /\ tpc = "done"
    /\ tin = PyDict(<< <<PyStr(<<"a">>), CBORTag(PyInt(42), NegInf)>> >>)
    /\ tout = tin

\* C4: an Integer within -9007199254740991..9007199254740991, both ends
\* included, stays the same number; any other becomes its base-10 string,
\* "9007199254740992" and "-9007199254740992" in particular.
IntegerBoundary ==
    (tin.k = "int" /\ tpc # "native") =>
        /\ tmid = IF WithinSafeMagnitude(tin) THEN tin ELSE PyStr(IntStr(tin))
        /\ tin = MkInt(FALSE, 90071992, 54740992) =>
              tmid = PyStr(<<"9", "0", "0", "7", "1", "9", "9", "2", "5", "4", "7", "4", "0", "9", "9", "2">>)
        /\ tin = MkInt(TRUE, 90071992, 54740992) =>
              tmid = PyStr(<<"-", "9", "0", "0", "7", "1", "9", "9", "2", "5", "4", "7", "4", "0", "9", "9", "2">>)
        /\ tin \in {MAX_SAFE_INTEGER, IntNegate(MAX_SAFE_INTEGER)} => tmid = tin

IntegerBoundaryWitness ==
    /\ tpc = "json"
    /\ tin = MkInt(TRUE, 90071992, 54740992)
    /\ tmid.k = "str"

RECURSIVE HasUndefined(_)
HasUndefined(v) ==
    \/ v.k = "undefined"
    \/ v.k \in {"list", "tuple"} /\ \E i \in 1..Len(v.items) : HasUndefined(v.items[i])
    \/ v.k = "tag" /\ HasUndefined(v.value)
    \/ v.k = "dict" /\ \E i \in 1..Len(v.pairs) :
           HasUndefined(v.pairs[i][1]) \/ HasUndefined(v.pairs[i][2])

\* json.loads, for the recovery of a key from its text: integers, floats
\* with one fraction digit 0 or 5, strings, arrays and objects.  A parse
\* step gives [ok, v, i]: the value and the index after it.
ParseFail == [ok |-> FALSE, v |-> Unset, i |-> 0]

Parsed(v, i) == [ok |-> TRUE, v |-> v, i |-> i]

IsDigit(c) == c \in {"0", "1", "2", "3", "4", "5", "6", "7", "8", "9"}

StartsWith(s, i, lit) == i + Len(lit) - 1 <= Len(s) /\ SubSeq(s, i, i + Len(lit) - 1) = lit

RECURSIVE SkipWs(_, _)
SkipWs(s, i) == IF i <= Len(s) /\ s[i] \in WhitespaceChars THEN SkipWs(s, i + 1) ELSE i

RECURSIVE DigitRun(_, _)
DigitRun(s, i) == IF i <= Len(s) /\ IsDigit(s[i]) THEN DigitRun(s, i + 1) ELSE i

RECURSIVE DigitsToNat(_)
DigitsToNat(ds) ==
    IF ds = <<>> THEN 0
    ELSE DigitsToNat(SubSeq(ds, 1, Len(ds) - 1)) * 10 + HexVal(ds[Len(ds)])

ParseNumber(s, i) ==
    LET neg == i <= Len(s) /\ s[i] = "-"
        b == IF neg THEN i + 1 ELSE i
        e == DigitRun(s, b)
        ds == SubSeq(s, b, e - 1)
        frac == e + 1 <= Len(s) /\ s[e] = "." /\ IsDigit(s[e + 1])
        fe == IF frac THEN DigitRun(s, e + 1) ELSE e
    IN  IF e = b \/ Len(ds) > 16 THEN ParseFail
        ELSE IF frac THEN
            IF fe = e + 2 /\ s[e + 1] \in {"0", "5"} /\ Len(ds) <= 8
            THEN LET h == 2 * DigitsToNat(ds) + (IF s[e + 1] = "5" THEN 1 ELSE 0)
                 IN  Parsed(PyFloat(IF neg THEN -h ELSE h), fe)
            ELSE ParseFail
        ELSE IF Len(ds) > 8
             THEN Parsed(MkInt(neg, DigitsToNat(SubSeq(ds, 1, Len(ds) - 8)),
                                    DigitsToNat(SubSeq(ds, Len(ds) - 7, Len(ds)))), e)
        ELSE Parsed(MkInt(neg, 0, DigitsToNat(ds)), e)

\* the characters after an opening quote, up to the closing one
RECURSIVE ParseStringBody(_, _, _)
ParseStringBody(s, i, acc) ==
    IF i > Len(s) THEN ParseFail
    ELSE IF s[i] = "\"" THEN Parsed(PyStr(acc), i + 1)
    ELSE IF s[i] = "\\" THEN
        IF i + 1 > Len(s) THEN ParseFail
        ELSE CASE s[i + 1] = "\"" -> ParseStringBody(s, i + 2, Append(acc, "\""))
               [] s[i + 1] = "\\" -> ParseStringBody(s, i + 2, Append(acc, "\\"))
               [] s[i + 1] = "n" -> ParseStringBody(s, i + 2, Append(acc, "\n"))
               [] s[i + 1] = "r" -> ParseStringBody(s, i + 2, Append(acc, "\r"))
               [] s[i + 1] = "t" -> ParseStringBody(s, i + 2, Append(acc, "\t"))
               [] OTHER -> ParseFail
    ELSE ParseStringBody(s, i + 1, Append(acc, s[i]))

RECURSIVE ParseValue(_, _), ParseItems(_, _, _), ParseMembers(_, _, _)
ParseValue(s, i0) ==
    LET i == SkipWs(s, i0)
    IN  IF i > Len(s) THEN ParseFail
        ELSE IF StartsWith(s, i, <<"n", "u", "l", "l">>) THEN Parsed(PyNone, i + 4)
        ELSE IF StartsWith(s, i, <<"t", "r", "u", "e">>) THEN Parsed(PyBool(TRUE), i + 4)
        ELSE IF StartsWith(s, i, <<"f", "a", "l", "s", "e">>) THEN Parsed(PyBool(FALSE), i + 5)
        ELSE IF s[i] = "\"" THEN ParseStringBody(s, i + 1, <<>>)
        ELSE IF s[i] = "[" THEN
            IF SkipWs(s, i + 1) <= Len(s) /\ s[SkipWs(s, i + 1)] = "]"
            THEN Parsed(PyList(<<>>), SkipWs(s, i + 1) + 1)
            ELSE ParseItems(s, i + 1, <<>>)
        ELSE IF s[i] = "{" THEN
            IF SkipWs(s, i + 1) <= Len(s) /\ s[SkipWs(s, i + 1)] = "}"
            THEN Parsed(PyDict(<<>>), SkipWs(s, i + 1) + 1)
            ELSE ParseMembers(s, i + 1, <<>>)
        ELSE ParseNumber(s, i)

ParseItems(s, i, acc) ==
    LET r == ParseValue(s, i)
        j == SkipWs(s, r.i)
    IN  IF ~r.ok \/ j > Len(s) THEN ParseFail
        ELSE IF s[j] = "]" THEN Parsed(PyList(Append(acc, r.v)), j + 1)
        ELSE IF s[j] = "," THEN ParseItems(s, j + 1, Append(acc, r.v))
        ELSE ParseFail

ParseMembers(s, i, acc) ==
    LET q == SkipWs(s, i)
        key == IF q <= Len(s) /\ s[q] = "\"" THEN ParseStringBody(s, q + 1, <<>>) ELSE ParseFail
        c == SkipWs(s, key.i)
        r == IF key.ok /\ c <= Len(s) /\ s[c] = ":" THEN ParseValue(s, c + 1) ELSE ParseFail
        j == SkipWs(s, r.i)
    IN  IF ~r.ok \/ j > Len(s) THEN ParseFail
        ELSE IF s[j] = "}" THEN Parsed(PyDict(DictSetItem(acc, key.v, r.v)), j + 1)
        ELSE IF s[j] = "," THEN ParseMembers(s, j + 1, DictSetItem(acc, key.v, r.v))
        ELSE ParseFail

json_loads(text) ==
    LET r == IF text.k = "str" THEN ParseValue(text.s, 1) ELSE ParseFail
    IN  IF r.ok /\ SkipWs(text.s, r.i) = Len(text.s) + 1 THEN r.v
        ELSE Raise("JSONDecodeError", "Expecting value")

\* the native key a JSON text stands for
RecoveredKey(text) ==
    LET parsed == json_loads(text)
    IN  IF IsRaise(parsed) THEN parsed ELSE from_json_safe(parsed)

\* the object key the claim gives a native key
ClaimedKey(key) ==
    IF key.k = "bytes" THEN PyStr(BytesHex(key.bs))
    ELSE IF key.k = "int" THEN PyStr(IntStr(key))
    ELSE IF key.k = "str" THEN key
    ELSE json_dumps(to_json_safe(key))

\* C5: the object key of a Map entry is the hex string of a ByteString key,
\* the decimal string of an Integer key, a TextString key unchanged, and for
\* a key of any other type (Boolean, Float, nested structure, Tag) the JSON
\* text of its translation, so that true becomes "true"; parsing that text
\* as JSON and reversing the translation gives the key back.
MapKeyTranslation ==
    (tin.k = "dict" /\ tpc # "native" /\ ~IsRaise(tmid) /\ ~HasUndefined(tin)) =>
        \A i \in 1..Len(tin.pairs) :
            LET key == tin.pairs[i][1]
            IN  /\ MapKey(key) = ClaimedKey(key)
                /\ DictHas(tmid, ClaimedKey(key))
                /\ key.k \notin {"bytes", "int", "str"} => SemEq(key, RecoveredKey(MapKey(key)))

\* a JSON-safe value: no Undefined, ByteString, Tag or non-finite Float at
\* any depth, and text keys only
RECURSIVE JsonSafe(_)
JsonSafe(v) ==
    \/ v.k \in {"none", "bool", "int", "str"}
    \/ v.k = "float" /\ v.cls = "finite"
    \/ v.k = "list" /\ \A i \in 1..Len(v.items) : JsonSafe(v.items[i])
    \/ v.k = "dict" /\ \A i \in 1..Len(v.pairs) :
           v.pairs[i][1].k = "str" /\ JsonSafe(v.pairs[i][2])

\* C7: to_json_safe is defined for every native value, maps Undefined to
\* {"__cbor_undefined__": true} and Null to null, and its result is a
\* JSON-safe value at every depth.
UndefinedAndTotality ==
    (tin # Unset /\ tpc # "native") =>
        /\ ~IsRaise(tmid)
        /\ tin = Undefined => tmid = PyDict(<< <<K_UNDEFINED, PyBool(TRUE)>> >>)
        /\ tin = PyNone => tmid = PyNone
        /\ JsonSafe(tmid)

\* C9: to_json_safe keeps the n entries of a Map with pairwise-distinct keys,
\* in order, the i-th key the translation of the i-th key and the i-th value
\* the translation of the i-th value; from_json_safe keeps the keys of a
\* non-marker object, in order.
MapOrderPreserved ==
    /\ (tin.k = "dict" /\ tpc # "native" /\ ~IsRaise(tmid)) =>
          /\ tmid.k = "dict"
          /\ Len(tmid.pairs) = Len(tin.pairs)
          /\ \A i \in 1..Len(tin.pairs) :
                tmid.pairs[i] = <<MapKey(tin.pairs[i][1]), to_json_safe(tin.pairs[i][2])>>
    /\ (tin = Unset /\ tpc = "done" /\ tmid.k = "dict" /\ ~ReadAsMarker(tmid) /\ ~IsRaise(tout)) =>
          /\ tout.k = "dict"
          /\ Len(tout.pairs) = Len(tmid.pairs)
          /\ \A i \in 1..Len(tmid.pairs) : tout.pairs[i][1] = tmid.pairs[i][1]

WellFormedHex(v) ==
    /\ v.k = "str"
    /\ Len(v.s) % 2 = 0
    /\ \A i \in 1..Len(v.s) : HexVal(v.s[i]) >= 0

\* an object carrying one of the four documented complete marker shapes
DocumentedMarker(d) ==
    \/ DictHas(d, K_BYTES) /\ WellFormedHex(DictGet(d, K_BYTES))
    \/ DictHas(d, K_FLOAT) /\ DictGet(d, K_FLOAT) \in {S_NaN, S_Infinity, S_NegInfinity}
    \/ DictHas(d, K_TAG) /\ DictHas(d, K_VALUE) /\ IsInstanceInt(DictGet(d, K_TAG))
    \/ DictHas(d, K_UNDEFINED) /\ DictGet(d, K_UNDEFINED) = PyBool(TRUE)

\* a bytes or float marker with an invalid payload
InvalidPayload(d) ==
    \/ DictHas(d, K_BYTES) /\ ~WellFormedHex(DictGet(d, K_BYTES))
    \/ DictHas(d, K_FLOAT) /\ DictGet(d, K_FLOAT) \notin {S_NaN, S_Infinity, S_NegInfinity}

\* C10: an object that is none of the four documented marker shapes, and no
\* bytes or float marker with an invalid payload, comes back from
\* from_json_safe as a plain Map with the same keys and each value
\* translated.
MarkerRecognition ==
    (tin = Unset /\ tpc = "done" /\ tmid.k = "dict"
        /\ ~DocumentedMarker(tmid) /\ ~InvalidPayload(tmid)
        /\ \A i \in 1..Len(tmid.pairs) : ~IsRaise(from_json_safe(tmid.pairs[i][2]))) =>
        /\ tout.k = "dict"
        /\ Len(tout.pairs) = Len(tmid.pairs)
        /\ \A i \in 1..Len(tmid.pairs) :
              tout.pairs[i] = <<tmid.pairs[i][1], from_json_safe(tmid.pairs[i][2])>>

-----------------------------------------------------------------------------
(* Properties of the service, under Spec *)

\* C2: decode_cbor and encode_cbor never let an exception out, and a call
\* that is done holds a success envelope (success, the payload field,
\* duration_ms) or a failure envelope (success, an error string) and no
\* other field.
EnvelopeShape ==
    \A c \in Callers :
        /\ pc[c] # "raised"
        /\ pc[c] = "done" =>
              \/ /\ env[c].success = TRUE
                 /\ DOMAIN env[c] = {"success", IF op[c] = "decode" THEN "result" ELSE "hex", "duration_ms"}
                 /\ env[c].duration_ms >= 0
              \/ /\ env[c].success = FALSE
                 /\ DOMAIN env[c] = {"success", "error"}
                 /\ env[c].error \in STRING

EnvelopeShapeWitness ==
    \E c, d \in Callers :
        /\ pc[c] = "done" /\ op[c] = "decode" /\ env[c].success = FALSE /\ loc[c].loads_calls = 1
        /\ pc[d] = "done" /\ op[d] = "encode" /\ env[d].success = TRUE

\* C3: a decode request whose input string is not well-formed hex (odd
\* length, or a character that is no hex digit) never reaches cbor2.loads
\* and ends in a failure envelope.
HexValidatedBeforeDecode ==
    \A c \in Callers :
        (op[c] = "decode" /\ arg[c].k = "str" /\ ~WellFormedHex(arg[c])) =>
            /\ loc[c].loads_calls = 0
            /\ pc[c] = "done" => env[c].success = FALSE

\* an object carrying __cbor_float__ with a value that is none of the three
\* strings, at any depth
RECURSIVE HasMalformedFloatMarker(_)
HasMalformedFloatMarker(v) ==
    \/ v.k = "list" /\ \E i \in 1..Len(v.items) : HasMalformedFloatMarker(v.items[i])
    \/ v.k = "dict" /\ DictHas(v, K_FLOAT)
                    /\ DictGet(v, K_FLOAT) \notin {S_NaN, S_Infinity, S_NegInfinity}
    \/ v.k = "dict" /\ \E i \in 1..Len(v.pairs) : HasMalformedFloatMarker(v.pairs[i][2])

\* C6: from_json_safe fails on an input that holds a malformed float marker
\* at any depth, and encode_cbor then returns a failure envelope without
\* calling cbor2.dumps.
MalformedFloatMarkerRejected ==
    \A c \in Callers :
        (op[c] = "encode" /\ HasMalformedFloatMarker(arg[c]) /\ pc[c] # "e_from_json") =>
            /\ IsRaise(loc[c].data)
            /\ loc[c].dumps_calls = 0
            /\ pc[c] = "done" => env[c].success = FALSE

\* the envelope of a call made alone, from its argument and what the backend
\* did for it
SoloDecode(hex_string, outcome) ==
    LET data == bytes_fromhex(hex_string)
    IN  IF IsRaise(data) THEN FailureEnvelope(data)
        ELSE IF IsRaise(outcome) THEN FailureEnvelope(outcome)
        ELSE LET json_result == to_json_safe(outcome)
             IN  IF IsRaise(json_result) THEN FailureEnvelope(json_result)
                 ELSE SuccessDecode(json_result, 0)

SoloEncode(value, outcome) ==
    LET py_value == from_json_safe(value)
    IN  IF IsRaise(py_value) THEN FailureEnvelope(py_value)
        ELSE IF IsRaise(outcome) THEN FailureEnvelope(outcome)
        ELSE SuccessEncode(PyStr(BytesHex(outcome.bs)), 0)

SansDuration(e) == IF e.success THEN [e EXCEPT !.duration_ms = 0] ELSE e

\* C8: whatever the other callers do, a call's locals hold only what its own
\* argument and its own backend answer give, and its envelope, duration_ms
\* aside, is the envelope of the same call made alone.
RequestIndependence ==
    \A c \in Callers :
        /\ pc[c] = "idle" => (loc[c] = NoLocals /\ env[c] = Unset)
        /\ pc[c] \in {"d_loads", "d_to_json"} => loc[c].data = bytes_fromhex(arg[c])
        /\ pc[c] = "d_to_json" => loc[c].result = loc[c].backend
        /\ pc[c] = "e_dumps" => loc[c].data = from_json_safe(arg[c])
        /\ pc[c] = "done" =>
              SansDuration(env[c]) =
                  IF op[c] = "decode" THEN SoloDecode(arg[c], loc[c].backend)
                  ELSE SoloEncode(arg[c], loc[c].backend)

RequestIndependenceWitness ==
    \E c, d \in Callers :
        /\ pc[c] = "done" /\ env[c].success = FALSE
        /\ pc[d] = "done" /\ op[d] = "decode" /\ env[d].success = TRUE
        /\ env[d].result.k = "dict"

====
